---- MODULE Spec2Model ----
\* Model of scripts/image_metadata_overlay.py: a linear pipeline
\* download -> extract EXIF -> overlay text -> save, wrapped in one try/except.
\*
\* Python strings are modelled as sequences of one-character strings, so that
\* split, replace, strip and formatting are computed as the code computes them.
\* The progress messages printed to stdout before the save are plain ASCII and
\* cannot fail to encode; the success message of line 213 starts with U+2705
\* and raises UnicodeEncodeError when stdout's encoding lacks it.  The handler
\* prints to stderr, whose error handler is backslashreplace and never raises.
EXTENDS Integers, Sequences, FiniteSets, TLC

\* ------------------------------------------------------------------ bounds
MaxDateLen == 4     \* longest DateTimeOriginal string extraction is applied to
MaxRunDateLen == 3  \* longest DateTimeOriginal string enumerated in runs of main()
MaxNameLen == 2     \* longest Make / Model string enumerated
MaxAperLen == 4     \* longest FNumber string enumerated
MaxScale == 2       \* image widths are 100*k, measured text widths 60*k, k <= MaxScale

\* --------------------------------------------------------- string helpers
\* All sequences over alphabet A of length at most n.
StringsUpTo(A, n) ==
  UNION {[1..k -> A] : k \in 0..n}

\* Python str.split(sep) for a one-character separator: the list of the
\* (possibly empty) pieces between consecutive separators.
Split(s, sep) ==
  LET idx == {i \in 1..Len(s) : s[i] = sep}
      n == Cardinality(idx)
      SepPos(k) == IF k = 0 THEN 0
                   ELSE IF k = n + 1 THEN Len(s) + 1
                   ELSE CHOOSE i \in idx : Cardinality({j \in idx : j <= i}) = k
  IN [k \in 1..(n + 1) |-> SubSeq(s, SepPos(k - 1) + 1, SepPos(k) - 1)]

\* Python str.replace(old, new) for one-character old and new: every occurrence.
Replace(s, old, new) ==
  [i \in 1..Len(s) |-> IF s[i] = old THEN new ELSE s[i]]

\* Python str.strip(): leading and trailing whitespace removed.
Strip(s) ==
  LET keep == {i \in 1..Len(s) : s[i] # " "}
  IN IF keep = {} THEN <<>>
     ELSE LET lo == CHOOSE i \in keep : \A j \in keep : i <= j
              hi == CHOOSE i \in keep : \A j \in keep : j <= i
          IN SubSeq(s, lo, hi)

Digits == <<"0", "1", "2", "3", "4", "5", "6", "7", "8", "9">>

IsDigit(ch) == \E i \in 1..10 : Digits[i] = ch

DigitVal(ch) == (CHOOSE i \in 1..10 : Digits[i] = ch) - 1

\* Python float(s) on the strings enumerated here (decimal digits only):
\* a ValueError unless s is a non-empty run of digits.
FloatParses(s) == s # <<>> /\ \A i \in 1..Len(s) : IsDigit(s[i])

RECURSIVE ParseNat(_)
ParseNat(s) ==
  IF s = <<>> THEN 0
  ELSE 10 * ParseNat(SubSeq(s, 1, Len(s) - 1)) + DigitVal(s[Len(s)])

RECURSIVE NatToStr(_)
NatToStr(n) ==
  IF n < 10 THEN <<Digits[n + 1]>>
  ELSE NatToStr(n \div 10) \o <<Digits[(n % 10) + 1]>>

\* The binary exponent of m/5: the k with 5 * 2^k <= m < 5 * 2^(k+1).
RECURSIVE BinExp(_)
BinExp(m) ==
  IF m < 5 THEN BinExp(2 * m) - 1
  ELSE IF m < 10 THEN 0
  ELSE 1 + BinExp(m \div 2)

\* 2^j mod 5, which has period 4 in j.
Pow2Mod5(j) == <<1, 2, 4, 3>>[(j % 4) + 1]

\* The quotient float(num)/float(denom) is the binary double nearest to
\* num/denom.  When num/denom is the decimal tie m/20 (m odd) and 5 does not
\* divide m, the tie is not representable and the double lies above or below
\* it: m/5 scaled to a 53-bit significand leaves the remainder
\* (m * 2^(52-k)) mod 5, and the division rounds up iff that is 3 or 4.
DoubleAboveTie(m) == (m * Pow2Mod5(52 - BinExp(m))) % 5 >= 3

\* Python f"{float(num)/float(denom):.1f}" for non-negative integers num and
\* denom > 0: the double quotient rounded to one decimal.  Off a tie the
\* double is on the same side as the exact quotient; on the tie (2f+1)/20 the
\* double is exact iff 5 divides 2f+1 and is then rounded half to even, and
\* otherwise the side of the double decides.
Format1f(num, denom) ==
  LET f == (10 * num) \div denom
      r == (10 * num) % denom
      m == 2 * f + 1
      t == IF 2 * r > denom THEN f + 1
           ELSE IF 2 * r < denom THEN f
           ELSE IF m % 5 = 0 THEN (IF f % 2 = 0 THEN f ELSE f + 1)
           ELSE IF DoubleAboveTie(m) THEN f + 1 ELSE f
  IN NatToStr(t \div 10) \o <<".">> \o <<Digits[(t % 10) + 1]>>

\* ------------------------------------------------------ fallback literals
UnknownCamera ==
  <<"U","n","k","n","o","w","n"," ","C","a","m","e","r","a">>

UnknownLens ==
  <<"U","n","k","n","o","w","n"," ","L","e","n","s">>

UnknownAperture ==
  <<"f","/","?">>

UnknownShutter ==
  <<"?","s">>

UnknownIso ==
  <<"I","S","O"," ","?">>

UnknownDate ==
  <<"U","n","k","n","o","w","n"," ","D","a","t","e">>

\* --------------------------------------------------------------- EXIF tags
\* tags.get(name, None): either None or a tag object whose str() is val.
\* An exifread tag object defines no __bool__ / __len__, so a present tag is
\* truthy whatever its value.
Absent == [present |-> FALSE, val |-> <<>>]

Tag(s) == [present |-> TRUE, val |-> s]

Truthy(tag) == tag.present

\* A field computation either yields a string or raises.
Value(s) == [ok |-> TRUE, val |-> s, error |-> "none"]

Raises(e) == [ok |-> FALSE, val |-> <<>>, error |-> e]

\* Variant of CameraField that omits the strip() of line 43.
CameraField_NoStrip(make, model) ==
  IF Truthy(make) /\ Truthy(model)
    THEN Value(make.val \o <<" ">> \o model.val)
  ELSE IF Truthy(model)
    THEN Value(model.val)
  ELSE Value(UnknownCamera)

\* lines 40-47
CameraField(make, model) ==
  IF Truthy(make) /\ Truthy(model)
    THEN Value(Strip(make.val \o <<" ">> \o model.val))
  ELSE IF Truthy(model)
    THEN Value(model.val)
  ELSE Value(UnknownCamera)

\* Variant of LensField whose fallback literal is misspelt.
LensField_WrongFallback(lens) ==
  IF Truthy(lens) THEN Value(lens.val)
  ELSE Value(<<"U","n","k","n","o","w","n">>)

\* lines 50-54
LensField(lens) ==
  IF Truthy(lens) THEN Value(lens.val) ELSE Value(UnknownLens)

\* lines 57-68
ApertureField(aperture) ==
  IF Truthy(aperture)
    THEN LET aperture_str == aperture.val
             parts == Split(aperture_str, "/")
         IN IF \E i \in 1..Len(aperture_str) : aperture_str[i] = "/"
              THEN IF Len(parts) # 2 THEN Raises("ValueError")
                   ELSE IF ~FloatParses(parts[1]) \/ ~FloatParses(parts[2])
                     THEN Raises("ValueError")
                   ELSE IF ParseNat(parts[2]) = 0
                     THEN Raises("ZeroDivisionError")
                   ELSE Value(<<"f", "/">>
                              \o Format1f(ParseNat(parts[1]), ParseNat(parts[2])))
              ELSE Value(<<"f", "/">> \o aperture_str)
  ELSE Value(UnknownAperture)

\* lines 71-75
ShutterField(shutter) ==
  IF Truthy(shutter) THEN Value(shutter.val \o <<"s">>) ELSE Value(UnknownShutter)

\* lines 78-82
IsoField(iso) ==
  IF Truthy(iso) THEN Value(<<"I", "S", "O", " ">> \o iso.val) ELSE Value(UnknownIso)

\* Variant of DatetimeField that replaces the colons of the whole timestamp.
DatetimeField_AllColons(datetime_original) ==
  IF Truthy(datetime_original)
    THEN LET parts == Split(datetime_original.val, " ")
         IN IF Len(parts) # 2 THEN Raises("ValueError")
            ELSE Value(Replace(parts[1], ":", "-") \o <<" ">>
                       \o Replace(parts[2], ":", "-"))
  ELSE Value(UnknownDate)

\* Variant of DatetimeField that keeps a timestamp it cannot split as it is.
DatetimeField_Lenient(datetime_original) ==
  IF Truthy(datetime_original)
    THEN LET parts == Split(datetime_original.val, " ")
         IN IF Len(parts) # 2 THEN Value(datetime_original.val)
            ELSE Value(Replace(parts[1], ":", "-") \o <<" ">> \o parts[2])
  ELSE Value(UnknownDate)

\* lines 85-94
DatetimeField(datetime_original) ==
  IF Truthy(datetime_original)
    THEN LET parts == Split(datetime_original.val, " ")
         IN IF Len(parts) # 2 THEN Raises("ValueError")
            ELSE Value(Replace(parts[1], ":", "-") \o <<" ">> \o parts[2])
  ELSE Value(UnknownDate)

\* The keys assigned to the metadata dict, in assignment order.
MetadataKeys == <<"camera", "lens", "aperture", "shutter", "iso", "datetime">>

\* The six field computations of extract_exif_data, in program order.
FieldResults(tags) ==
  <<CameraField(tags.make, tags.model),
    LensField(tags.lens),
    ApertureField(tags.aperture),
    ShutterField(tags.shutter),
    IsoField(tags.iso),
    DatetimeField(tags.datetime)>>

\* extract_exif_data after the fetch (lines 35-96): the metadata dict, or the
\* first exception raised in program order.
ExtractFields(tags) ==
  LET res == FieldResults(tags)
      bad == {i \in 1..Len(res) : ~res[i].ok}
  IN IF bad = {}
       THEN [ok |-> TRUE,
             metadata |-> [k \in {MetadataKeys[i] : i \in 1..Len(res)} |->
                             res[CHOOSE i \in 1..Len(res) : MetadataKeys[i] = k].val],
             error |-> "none"]
     ELSE [ok |-> FALSE,
           metadata |-> [k \in {} |-> <<>>],
           error |-> res[CHOOSE i \in bad : \A j \in bad : i <= j].error]

\* ------------------------------------------------------------ tag inputs
NameChars == {"a", " "}

AperChars == {"0", "1", "2", "4", "/"}

DateChars == {"1", ":", " "}

\* A tag set with every source tag present and well formed.
SampleTags ==
  [make |-> Tag(<<"C">>), model |-> Tag(<<"4", "0", "D">>), lens |-> Tag(<<"L">>),
   aperture |-> Tag(<<"8">>), shutter |-> Tag(<<"1", "/", "4">>),
   iso |-> Tag(<<"1", "0", "0">>),
   datetime |-> Tag(<<"1", ":", "1", ":", "1", " ", "1", ":", "1">>)]

\* Every subset of the six source tags present, with the sample values.
PresenceTagSets ==
  {[make |-> IF "make" \in P THEN SampleTags.make ELSE Absent,
    model |-> IF "model" \in P THEN SampleTags.model ELSE Absent,
    lens |-> IF "lens" \in P THEN SampleTags.lens ELSE Absent,
    aperture |-> IF "aperture" \in P THEN SampleTags.aperture ELSE Absent,
    shutter |-> IF "shutter" \in P THEN SampleTags.shutter ELSE Absent,
    iso |-> IF "iso" \in P THEN SampleTags.iso ELSE Absent,
    datetime |-> IF "datetime" \in P THEN SampleTags.datetime ELSE Absent] :
   P \in SUBSET {"make", "model", "lens", "aperture", "shutter", "iso", "datetime"}}

OptionalTags(strings) == {Absent} \cup {Tag(s) : s \in strings}

\* Make and Model range over all short strings, present or not.
CameraTagSets ==
  {[SampleTags EXCEPT !.make = mk, !.model = md] :
     mk \in OptionalTags(StringsUpTo(NameChars, MaxNameLen)),
     md \in OptionalTags(StringsUpTo(NameChars, MaxNameLen))}

\* FNumber ranges over all short strings of digits and slashes.
ApertureTagSets ==
  {[SampleTags EXCEPT !.aperture = Tag(s)] : s \in StringsUpTo(AperChars, MaxAperLen)}

\* DateTimeOriginal ranges over all short strings of digits, colons and spaces.
DatetimeTagSets ==
  {[SampleTags EXCEPT !.datetime = Tag(s)] : s \in StringsUpTo(DateChars, MaxDateLen)}

\* The EXIF tag sets extract_exif_data is applied to on its own.
TagSets ==
  PresenceTagSets \cup CameraTagSets \cup ApertureTagSets \cup DatetimeTagSets

\* An image without EXIF data.
NoTags ==
  [make |-> Absent, model |-> Absent, lens |-> Absent, aperture |-> Absent,
   shutter |-> Absent, iso |-> Absent, datetime |-> Absent]

\* The EXIF tag sets the image behind the URL carries in a run of main().
PipelineTagSets ==
  {[SampleTags EXCEPT !.datetime = Tag(s)] : s \in StringsUpTo(DateChars, MaxRunDateLen)}
  \cup {NoTags, [SampleTags EXCEPT !.aperture = Tag(<<"1", "/", "0">>)]}

\* ---------------------------------------------------------------- drawing
margin == 20

line_spacing == 30

shadow_offset == 2

text_color == <<255, 255, 255>>

shadow_color == <<0, 0, 0>>

\* One draw.text call.
DrawText(x, y, text, fill) == [x |-> x, y |-> y, text |-> text, fill |-> fill]

\* The (offset_x, offset_y) pairs of the nested range loops, in loop order.
LoopOffsets ==
  LET side == 2 * shadow_offset + 1
  IN [k \in 1..(side * side) |->
        <<((k - 1) \div side) - shadow_offset, ((k - 1) % side) - shadow_offset>>]

\* Variant of create_text_with_shadow that draws the main text before the shadow.
create_text_with_shadow_TextFirst(x, y, text) ==
  LET shadow == SelectSeq(LoopOffsets, LAMBDA o : o[1] # 0 \/ o[2] # 0)
  IN <<DrawText(x, y, text, text_color)>>
     \o [k \in 1..Len(shadow) |->
           DrawText(x + shadow[k][1], y + shadow[k][2], text, shadow_color)]

\* create_text_with_shadow (lines 99-110): the draw.text calls it makes, in order.
create_text_with_shadow(x, y, text) ==
  LET shadow == SelectSeq(LoopOffsets, LAMBDA o : o[1] # 0 \/ o[2] # 0)
  IN [k \in 1..Len(shadow) |->
        DrawText(x + shadow[k][1], y + shadow[k][2], text, shadow_color)]
     \o <<DrawText(x, y, text, text_color)>>

\* lines 144-148
left_text_lines(md) ==
  <<md["camera"], md["lens"],
    md["aperture"] \o <<" ">> \o md["shutter"] \o <<" ">> \o md["iso"]>>

\* lines 151-153
right_text_lines(md) == <<md["datetime"]>>

\* The left block loop (lines 158-171): draw calls for all left lines.
RECURSIVE DrawLines(_, _, _)
DrawLines(lines, x, y_position) ==
  IF lines = <<>> THEN <<>>
  ELSE create_text_with_shadow(x, y_position, Head(lines))
       \o DrawLines(Tail(lines), x, y_position + line_spacing)

LeftDraws(md, height) ==
  DrawLines(left_text_lines(md), margin,
            height - margin - (Len(left_text_lines(md)) * line_spacing))

\* The right block loop body when measurement succeeds (lines 174-190).
RightDraws(md, width, height, text_width) ==
  DrawLines(right_text_lines(md), width - margin - text_width,
            height - margin - (Len(right_text_lines(md)) * line_spacing))

\* ------------------------------------------------------------ environment
SAMPLE_IMAGE_URL == "https://raw.githubusercontent.com/ianare/exif-samples/master/jpg/Canon_40D.jpg"

OUTPUT_FILENAME == "output_with_metadata.jpg"

\* What requests.get(url, timeout=30) can do: time out, or answer with a status.
\* 304 stands for the statuses outside 2xx that requests hands back without
\* following a redirect (300, 304, a 301/302 without Location).
Statuses == {200, 304, 404, 500}

Responses ==
  {[timedOut |-> FALSE, status |-> st] : st \in Statuses}
  \cup {[timedOut |-> TRUE, status |-> 0]}

\* requests.get raises Timeout when no answer arrives within the timeout.
GetRaises(resp) == resp.timedOut

\* Response.raise_for_status(): HTTPError for a 4xx or 5xx status.
raise_for_status(resp) == 400 <= resp.status /\ resp.status < 600

\* len(font_paths), lines 124-129
NumFontPaths == 4

\* The output path before the run: no file, or a file left by something else.
NoFile == [kind |-> "absent", lines |-> 0]

PreviousFile == [kind |-> "previous", lines |-> 0]

\* A file opened for writing whose content was not completely written.
PartialFile == [kind |-> "partial", lines |-> 0]

\* The JPEG encoding of a canvas: identified by the text lines burned into it.
JpegOf(draws) ==
  [kind |-> "jpeg",
   lines |-> Cardinality({i \in 1..Len(draws) : draws[i].fill = text_color})]

\* Sizes of the decoded image (taller than wide by 50).
Sizes == {[width |-> 100 * k, height |-> 100 * k + 50] : k \in 1..MaxScale}

TextWidths == {60 * k : k \in 1..MaxScale}

\* ------------------------------------------------------------------ state
VARIABLES
  pc,            \* position in main(): the next statement, "except" or "done"
  tags,          \* EXIF tags exifread decodes from the body extract_exif_data fetches
  fileBefore,    \* state of the output path before the run
  file,          \* state of the output path now
  requests,      \* HTTP GETs issued so far: <<[url, resp]>>
  image,         \* size of the decoded image (download_image's result)
  metadata,      \* extract_exif_data's result
  font,          \* resolved font: index into font_paths, 0 = load_default()
  canvas,        \* draw.text calls made on the working copy, in order
  rendered,      \* overlay_metadata has returned the composited image
  measureFailed, \* draw.textbbox raised
  error,         \* exception in flight or handled ("none" if none)
  stderr,        \* messages printed to the error stream
  exitCode,      \* value returned by main(); -1 while it has not returned
  trace          \* the stages entered so far, in order

vars ==
  <<pc, tags, fileBefore, file, requests, image, metadata, font, canvas,
    rendered, measureFailed, error, stderr, exitCode, trace>>

NoMetadata == [k \in {} |-> <<>>]

NoImage == [width |-> 0, height |-> 0]

InitRun ==
  /\ file = fileBefore
  /\ requests = <<>>
  /\ image = NoImage
  /\ metadata = NoMetadata
  /\ font = 0
  /\ canvas = <<>>
  /\ rendered = FALSE
  /\ measureFailed = FALSE
  /\ error = "none"
  /\ stderr = <<>>
  /\ exitCode = -1
  /\ trace = <<>>

Init ==
  /\ pc = "download"
  /\ tags \in PipelineTagSets
  /\ fileBefore \in {NoFile, PreviousFile}
  /\ InitRun

\* An exception raised inside the try block: control goes to the handler.
Raise(e) ==
  /\ error' = e
  /\ pc' = "except"

\* One fetch as both download_image and extract_exif_data perform it
\* (lines 24-25 and 32-33): the name of the exception raised, or "none".
FetchError(resp) ==
  IF GetRaises(resp) THEN "Timeout"
  ELSE IF raise_for_status(resp) THEN "HTTPError"
  ELSE "none"

\* main line 199: image = download_image(SAMPLE_IMAGE_URL)
DownloadImage ==
  /\ pc = "download"
  /\ trace' = Append(trace, "download")
  /\ \E resp \in Responses, decodes \in BOOLEAN, size \in Sizes :
       /\ requests' = Append(requests, [url |-> SAMPLE_IMAGE_URL, resp |-> resp])
       /\ IF FetchError(resp) # "none"
            THEN Raise(FetchError(resp)) /\ UNCHANGED image
          ELSE IF ~decodes
            THEN Raise("UnidentifiedImageError") /\ UNCHANGED image
          ELSE /\ image' = size
               /\ pc' = "extract"
               /\ UNCHANGED error
  /\ UNCHANGED <<tags, fileBefore, file, metadata, font, canvas, rendered,
                 measureFailed, stderr, exitCode>>

\* main lines 202-206: metadata = extract_exif_data(SAMPLE_IMAGE_URL)
ExtractExifData ==
  /\ pc = "extract"
  /\ trace' = Append(trace, "extract")
  /\ \E resp \in Responses :
       /\ requests' = Append(requests, [url |-> SAMPLE_IMAGE_URL, resp |-> resp])
       /\ IF FetchError(resp) # "none"
            THEN Raise(FetchError(resp)) /\ UNCHANGED metadata
          ELSE IF ~ExtractFields(tags).ok
            THEN Raise(ExtractFields(tags).error) /\ UNCHANGED metadata
          ELSE /\ metadata' = ExtractFields(tags).metadata
               /\ pc' = "overlay"
               /\ UNCHANGED error
  /\ UNCHANGED <<tags, fileBefore, file, image, font, canvas, rendered,
                 measureFailed, stderr, exitCode>>

\* Font resolution (lines 122-138): the first existing candidate path, loaded
\* as a TrueType font; the built-in font if none exists or loading raises.
ResolveFont(firstExisting, loads) ==
  IF firstExisting > 0 /\ loads THEN firstExisting ELSE 0

\* main line 209: image_with_metadata = overlay_metadata(image, metadata)
\* draw.textbbox can raise only for the built-in font (it is "only supported
\* for TrueType fonts" in the library versions where it raises at all).
OverlayMetadata ==
  /\ pc = "overlay"
  /\ trace' = Append(trace, "overlay")
  /\ \E firstExisting \in 0..NumFontPaths, loads \in BOOLEAN,
        measures \in BOOLEAN, text_width \in TextWidths :
       /\ font' = ResolveFont(firstExisting, loads)
       /\ measures \/ font' = 0
       /\ IF measures
            THEN /\ canvas' = LeftDraws(metadata, image.height)
                                \o RightDraws(metadata, image.width, image.height,
                                              text_width)
                 /\ rendered' = TRUE
                 /\ pc' = "save"
                 /\ UNCHANGED <<measureFailed, error>>
            ELSE /\ canvas' = LeftDraws(metadata, image.height)
                 /\ measureFailed' = TRUE
                 /\ Raise("ValueError")
                 /\ UNCHANGED rendered
  /\ UNCHANGED <<tags, fileBefore, file, requests, image, metadata, stderr,
                 exitCode>>

\* main lines 212-215: image_with_metadata.save(OUTPUT_FILENAME, "JPEG",
\* quality=95), print the success message, return 0.  The print raises
\* UnicodeEncodeError, inside the try and after the file is written, when
\* stdout cannot encode the message.  save opens the output path for writing, which
\* truncates an existing file, and then encodes into it; a failure of the
\* open leaves the path as it was, a failure while encoding or writing
\* leaves an incomplete file, which the library may delete again only if
\* the open created it.
Save ==
  /\ pc = "save"
  /\ trace' = Append(trace, "save")
  /\ \E outcome \in {"ok", "open_fails", "write_fails"}, removed \in BOOLEAN,
        encodes \in BOOLEAN :
       CASE outcome = "ok" ->
              /\ file' = JpegOf(canvas)
              /\ IF encodes
                   THEN /\ exitCode' = 0
                        /\ pc' = "done"
                        /\ UNCHANGED error
                   ELSE /\ UNCHANGED exitCode
                        /\ Raise("UnicodeEncodeError")
         [] outcome = "open_fails" ->
              /\ UNCHANGED <<file, exitCode>>
              /\ Raise("OSError")
         [] outcome = "write_fails" ->
              /\ file' = IF file = NoFile /\ removed THEN NoFile ELSE PartialFile
              /\ UNCHANGED exitCode
              /\ Raise("OSError")
  /\ UNCHANGED <<tags, fileBefore, requests, image, metadata, font, canvas,
                 rendered, measureFailed, stderr>>

\* main lines 216-218: except Exception as e: print to stderr, return 1
HandleException ==
  /\ pc = "except"
  /\ stderr' = Append(stderr, error)
  /\ exitCode' = 1
  /\ pc' = "done"
  /\ UNCHANGED <<tags, fileBefore, file, requests, image, metadata, font,
                 canvas, rendered, measureFailed, error, trace>>

Next ==
  \/ DownloadImage
  \/ ExtractExifData
  \/ OverlayMetadata
  \/ Save
  \/ HandleException

Spec == Init /\ [][Next]_vars

\* ------------------------------------------------- extraction on its own
\* extract_exif_data applied to a tag set, the fetch having succeeded.
ApplyExtract ==
  /\ pc = "apply"
  /\ IF ExtractFields(tags).ok
       THEN /\ metadata' = ExtractFields(tags).metadata
            /\ pc' = "returned"
            /\ UNCHANGED error
       ELSE /\ error' = ExtractFields(tags).error
            /\ pc' = "raised"
            /\ UNCHANGED metadata
  /\ UNCHANGED <<tags, fileBefore, file, requests, image, font, canvas,
                 rendered, measureFailed, stderr, exitCode, trace>>

InitExtract ==
  /\ pc = "apply"
  /\ tags \in TagSets
  /\ fileBefore = NoFile
  /\ InitRun

NextExtract == ApplyExtract

SpecExtract == InitExtract /\ [][NextExtract]_vars

\* ================================================================ claims
AllStages == <<"download", "extract", "overlay", "save">>

Entered(stage) == \E i \in 1..Len(trace) : trace[i] = stage

\* A GET that timed out or was answered with a non-success (non-2xx) status.
RequestFailed(r) == r.resp.timedOut \/ ~(200 <= r.resp.status /\ r.resp.status < 300)

FetchFailed == \E i \in 1..Len(requests) : RequestFailed(requests[i])

FullyComposited(f) == f.kind = "jpeg" /\ f.lines = 4

\* C1: in a run in which a fetch fails, the save step is never reached, the
\* output file stays as it was before the run, and main() returns 1.
C1_FetchFailureAborts ==
  FetchFailed =>
    /\ ~Entered("save")
    /\ file = fileBefore
    /\ exitCode # 0
    /\ (pc = "done" => exitCode = 1)

\* C2: at the end of every run, either a fully composited image has been
\* written to the output path or the path is in the state it had before.
C2_AllOrNothing ==
  pc = "done" => (file = fileBefore \/ FullyComposited(file))

\* C3: every run issues exactly one HTTP GET, and a failed request is never
\* followed by another attempt.
C3_OneRequestPerRun ==
  /\ pc = "done" => Len(requests) = 1
  /\ \A i \in 1..Len(requests) : RequestFailed(requests[i]) => i = Len(requests)

\* C4: main() returns 0 exactly when the four stages ran in order without a
\* failure and the output file was written; a failure makes it return 1 after
\* printing the failure message to the error stream, and no stage is entered
\* after the failing one.
C4_ExitCode ==
  /\ [](/\ \A i \in 1..Len(trace) : i <= Len(AllStages) /\ trace[i] = AllStages[i]
        /\ exitCode = 0 =>
             /\ pc = "done"
             /\ trace = AllStages
             /\ error = "none"
             /\ stderr = <<>>
             /\ FullyComposited(file)
        /\ pc = "done" =>
             /\ exitCode \in {0, 1}
             /\ (trace = AllStages /\ FullyComposited(file)) => exitCode = 0
             /\ exitCode = 1 <=> error # "none"
             /\ exitCode = 1 => stderr = <<error>>)
  /\ [][error # "none" => trace' = trace /\ error' = error]_vars

\* The fallback literal of each metadata field.
Fallback ==
  [camera |-> UnknownCamera, lens |-> UnknownLens, aperture |-> UnknownAperture,
   shutter |-> UnknownShutter, iso |-> UnknownIso, datetime |-> UnknownDate]

\* The tag whose absence makes a field fall back (for camera: the model).
SourceTag(t) ==
  [camera |-> t.model, lens |-> t.lens, aperture |-> t.aperture,
   shutter |-> t.shutter, iso |-> t.iso, datetime |-> t.datetime]

\* C5: whenever extract_exif_data returns, the metadata has exactly the six
\* fields, and each field whose source tag is absent is its fallback literal.
C5_FullyPopulated ==
  pc = "returned" =>
    /\ DOMAIN metadata = {"camera", "lens", "aperture", "shutter", "iso", "datetime"}
    /\ \A k \in DOMAIN Fallback :
         ~SourceTag(tags)[k].present => metadata[k] = Fallback[k]

C5_Witness ==
  /\ pc = "returned"
  /\ tags = NoTags
  /\ metadata["iso"] = <<"I", "S", "O", " ", "?">>

\* s without its leading and trailing spaces, stated without Strip.
IsTrimOf(r, s) ==
  /\ (r # <<>> => r[1] # " " /\ r[Len(r)] # " ")
  /\ \E lead \in 0..Len(s) :
       /\ lead + Len(r) <= Len(s)
       /\ \A i \in 1..Len(s) :
            IF lead < i /\ i <= lead + Len(r) THEN s[i] = r[i - lead] ELSE s[i] = " "

\* C6: camera is "{make} {model}" trimmed when both tags are present, the
\* model alone when only the model is present, "Unknown Camera" otherwise.
C6_Camera ==
  pc = "returned" =>
    /\ (tags.make.present /\ tags.model.present =>
          IsTrimOf(metadata["camera"], tags.make.val \o <<" ">> \o tags.model.val))
    /\ (~tags.make.present /\ tags.model.present =>
          metadata["camera"] = tags.model.val)
    /\ (~tags.model.present => metadata["camera"] = UnknownCamera)

C6_Witness ==
  /\ pc = "returned"
  /\ tags.make = Tag(<<" ", "a">>)
  /\ tags.model = Tag(<<"a", " ">>)
  /\ metadata["camera"] = <<"a", " ", "a">>

NumSpaces(s) == Cardinality({i \in 1..Len(s) : s[i] = " "})

SpaceAt(s) == CHOOSE i \in 1..Len(s) : s[i] = " "

\* The number of colons of s among its first i characters.
ColonsUpTo(s, i) == Cardinality({j \in 1..i : s[j] = ":"})

\* C7 as stated: for a timestamp with exactly one space, datetime is the tag
\* with the first two colons before the space replaced by hyphens and every
\* other character unchanged.
C7_FirstTwoColons ==
  (pc = "returned" /\ tags.datetime.present /\ NumSpaces(tags.datetime.val) = 1) =>
    LET s == tags.datetime.val
    IN /\ Len(metadata["datetime"]) = Len(s)
       /\ \A i \in 1..Len(s) :
            metadata["datetime"][i] =
              IF i < SpaceAt(s) /\ s[i] = ":" /\ ColonsUpTo(s, i) <= 2
                THEN "-" ELSE s[i]

\* C7 amended: for a timestamp with exactly one space, datetime is the tag
\* with every colon before the space replaced by a hyphen and every other
\* character, the time portion and its colons included, unchanged.
C7_AllDateColons ==
  (pc = "returned" /\ tags.datetime.present /\ NumSpaces(tags.datetime.val) = 1) =>
    LET s == tags.datetime.val
    IN /\ Len(metadata["datetime"]) = Len(s)
       /\ \A i \in 1..Len(s) :
            metadata["datetime"][i] =
              IF i < SpaceAt(s) /\ s[i] = ":" THEN "-" ELSE s[i]

C7_Witness ==
  /\ pc = "returned"
  /\ tags.datetime = Tag(<<":", "1", " ", ":">>)
  /\ metadata["datetime"] = <<"-", "1", " ", ":">>

\* C8: when the timestamp tag is present and does not contain exactly one
\* space, extract_exif_data raises instead of returning metadata, nothing is
\* rendered, the output file is not written, and the run ends with exit code 1.
C8_MalformedTimestamp ==
  (tags.datetime.present /\ NumSpaces(tags.datetime.val) # 1) =>
    /\ metadata = NoMetadata
    /\ ~Entered("overlay") /\ ~Entered("save")
    /\ canvas = <<>> /\ ~rendered
    /\ file = fileBefore
    /\ exitCode # 0
    /\ (Entered("extract") => error # "none")
    /\ (pc = "done" => exitCode = 1)

C8_Witness ==
  /\ pc = "done"
  /\ exitCode = 1
  /\ NumSpaces(tags.datetime.val) = 2
  /\ trace = <<"download", "extract">>
  /\ ~FetchFailed
  /\ error = "ValueError"

\* C9: when measuring the datetime line fails, overlay_metadata still returns
\* the composited image with the datetime line drawn at x = margin; when it
\* succeeds the line is drawn at x = width - 20 - textWidth, y = height - 50.
C9_MeasureFallback ==
  Entered("overlay") =>
    /\ rendered
    /\ FullyComposited(JpegOf(canvas))
    /\ canvas[Len(canvas)].y = image.height - 20 - 30
    /\ IF measureFailed
         THEN canvas[Len(canvas)].x = 20
         ELSE \E tw \in TextWidths : canvas[Len(canvas)].x = image.width - 20 - tw

\* The draw calls of the k-th text line, k = 1, 2, ...
LineCalls(k) == SubSeq(canvas, 25 * (k - 1) + 1, 25 * k)

ShadowOffsetSet == {o \in (-2..2) \X (-2..2) : o # <<0, 0>>}

\* C10: each text line drawn is 25 draw calls: first 24 black draws of the
\* text, one at each offset in [-2,2]x[-2,2] except (0,0), then one white
\* draw of the same text at offset (0,0), which is the last draw of the line.
C10_ShadowThenText ==
  /\ Len(canvas) % 25 = 0
  /\ rendered => Len(canvas) = 4 * 25
  /\ \A k \in 1..(Len(canvas) \div 25) :
       LET c == LineCalls(k)
       IN /\ c[25].fill = <<255, 255, 255>>
          /\ \A i \in 1..24 : c[i].fill = <<0, 0, 0>> /\ c[i].text = c[25].text
          /\ {<<c[i].x - c[25].x, c[i].y - c[25].y>> : i \in 1..24} = ShadowOffsetSet

C10_Witness ==
  /\ rendered
  /\ Len(canvas) = 100
  /\ canvas[100].text = <<"-", " ", "1">>
  /\ canvas[75].text = <<"f", "/", "8", " ", "1", "/", "4", "s", " ", "I", "S", "O", " ", "1", "0", "0">>

====
